---------------------------- MODULE Spec2Model ----------------------------
(***************************************************************************)
(* FloML hydrological signal analysis: precursor detection                 *)
(* (floml/precursors.py), lag correlation (floml/correlation.py) and       *)
(* segmented regression (floml/regression.py).                             *)
(*                                                                         *)
(* Every analyzer is a pure function, so each one has a specification of   *)
(* its own: Init draws the arguments from bounded sets and one action      *)
(* applies the function and stores what it returns or raises.              *)
(*                                                                         *)
(* Conventions.  A time series is a sequence of records [t, v] with        *)
(* strictly increasing integer timestamps t (hours; t = 0 is a midnight).  *)
(* A float that may be NaN is <<>> (NaN) or <<x>>.  Stage values are       *)
(* integers counted in 1/UnitsPerFoot ft, rates in the same unit per day.  *)
(***************************************************************************)
EXTENDS Integers, Sequences, FiniteSets

VARIABLES
    pc,              \* "ready": arguments bound; "returned" / "raised": the call ended
    error,           \* which exception ended the call ("none" when it returned)
    stage,           \* precursors: the stage series argument
    rate_threshold,  \* detect_rapid_rise: threshold_ft_per_day
    min_duration,    \* detect_rapid_rise: min_duration_hours
    rise_threshold,  \* detect_sustained_rise: threshold_ft
    window_days,     \* detect_sustained_rise: window_days
    rise_rate,       \* detect_rapid_rise: the rise-rate grid it computed
    stage_daily,     \* detect_sustained_rise: the daily means it computed
    events,          \* the list of PrecursorEvent a detector returned
    upstream,        \* correlation: the upstream series argument
    downstream,      \* correlation: the downstream series argument
    max_lag_hours,   \* find_optimal_lag: max_lag_hours
    lag_hours,       \* correlate_stations: lag_hours, <<>> for None
    auto_detect_lag, \* correlate_stations: auto_detect_lag
    overlap,         \* len(df): the rows left after the join, <<>> until computed
    lag_index,       \* what find_optimal_lag returned, <<>> if nothing
    corr,            \* the CorrelationResult returned, <<>> if none
    data,            \* analyze_station_network: station code -> series
    station_order,   \* analyze_station_network: codes, upstream first
    rows,            \* analyze_station_network: the rows of the returned table
    pwlf_available,  \* regression: whether `import pwlf` succeeded
    x,               \* fit_segmented_regression: x
    y,               \* fit_segmented_regression: y
    n_segments,      \* fit_segmented_regression: n_segments
    breakpoint_init, \* fit_segmented_regression: breakpoint_init, <<>> for None
    solver_rows,     \* the rows handed to pwlf.PiecewiseLinFit, <<>> if it was not called
    fitted,          \* the RegressionResult returned, <<>> if none
    max_segments,    \* find_optimal_segments: max_segments
    r_squared_values, \* find_optimal_segments: the R^2 of the fits for 1..max_segments
    optimal,         \* find_optimal_segments: the count returned, <<>> if none
    model,           \* RegressionResult.predict: self, <<>> if none
    x_new,           \* RegressionResult.predict: x
    y_pred,          \* RegressionResult.predict: the array returned, <<>> if none
    rate_window,     \* calculate_rise_rate: window_hours
    rapid_mask,      \* rise_rate > threshold_ft_per_day, <<>> until computed
    peak_time,       \* analyze_precursors: peak_time
    lookback_days,   \* analyze_precursors: lookback_days
    metrics          \* compute_precursor_metrics: the dictionary returned, <<>> if none

precursor_vars ==
    <<stage, rate_threshold, min_duration, rise_threshold, window_days,
      rise_rate, stage_daily, events>>

correlation_vars ==
    <<upstream, downstream, max_lag_hours, lag_hours, auto_detect_lag, overlap,
      lag_index, corr, data, station_order, rows>>

regression_vars ==
    <<pwlf_available, x, y, n_segments, breakpoint_init, solver_rows, fitted>>

selection_vars == <<max_segments, r_squared_values, optimal>>

predict_vars == <<model, x_new, y_pred>>

summary_vars == <<rate_window, rapid_mask, peak_time, lookback_days, metrics>>

aux_vars == <<selection_vars, predict_vars, summary_vars>>

vars == <<pc, error, precursor_vars, correlation_vars, regression_vars, aux_vars>>

----------------------------------------------------------------------------
(* Bounds of the model *)

\* stage resolution: this many integer units make one foot
UnitsPerFoot == 4
\* detect_rapid_rise inputs: hourly samples after the warm-up window
TailLen == 5
\* hourly stage levels are 0, 2, .., 2*MaxLevel units
MaxLevel == 2
\* min_duration_hours ranges over 1..MaxMinDuration
MaxMinDuration == 2
\* detect_sustained_rise inputs: number of days spanned
MaxDays == 5
\* daily stage levels are 0, 2 ft, .., 2*MaxDailyLevel ft
MaxDailyLevel == 3
\* window_days ranges over 1..MaxWindowDays
MaxWindowDays == 3

\* find_optimal_lag inputs: samples per series, start hour of the downstream
\* series, max_lag_hours
MaxSeriesLen == 5
MaxStart == 1
MaxLagArg == 2
\* correlate_stations inputs: series of up to MinSamples + MaxExtra samples, a
\* pulse among the first MaxPulseAt samples, an explicit lag of at most MaxShift hours
MaxExtra == 1
MaxPulseAt == 2
MaxShift == 1
\* analyze_station_network inputs: length of station_order
MaxChain == 3
\* fit_segmented_regression inputs: length of x and of y, n_segments, length of
\* breakpoint_init
MaxPoints == 3
MaxSegments == 2
MaxBreaks == 4

(* Program constants *)

\* find_optimal_lag(upstream, downstream, max_lag_hours=48)
DefaultMaxLag == 48
\* if len(df) < 10
MinSamples == 10

\* calculate_rise_rate(stage, window_hours=6) as called by detect_rapid_rise
WindowHours == 6
HoursPerDay == 24

----------------------------------------------------------------------------
(* Floats that may be NaN, and small helpers *)

NaN == <<>>

SetMax(S) == CHOOSE m \in S : \A e \in S : e <= m

SetMin(S) == CHOOSE m \in S : \A e \in S : m <= e

RECURSIVE SeqSum(_)
SeqSum(s) == IF s = <<>> THEN 0 ELSE Head(s) + SeqSum(Tail(s))

\* the samples of a dense grid (NaN where nothing was measured) as a time series:
\* grid point i is stamped t0 + (i-1)*step
RECURSIVE GridToSeries(_, _, _)
GridToSeries(dense, t0, step) ==
    IF dense = <<>> THEN <<>>
    ELSE (IF Head(dense) = NaN THEN <<>> ELSE <<[t |-> t0, v |-> Head(dense)[1]]>>)
         \o GridToSeries(Tail(dense), t0 + step, step)

----------------------------------------------------------------------------
(* pandas: Series.resample(freq).mean(), .interpolate(), .diff(), .rolling() *)

\* mean of the samples that fall in bin b (hours b*freq .. (b+1)*freq - 1), NaN
\* for an empty bin
BinMean(series, freq, b) ==
    LET bin == SelectSeq(series, LAMBDA s : s.t \div freq = b)
    IN  IF bin = <<>> THEN NaN
        ELSE <<SeqSum([j \in 1..Len(bin) |-> bin[j].v]) \div Len(bin)>>

RECURSIVE BinMeans(_, _, _, _)
BinMeans(series, freq, b, last) ==
    IF b > last THEN <<>>
    ELSE IF b = last THEN <<BinMean(series, freq, b)>>
    ELSE LET middle == (b + last) \div 2
         IN  BinMeans(series, freq, b, middle) \o BinMeans(series, freq, middle + 1, last)

\* resample(freq).mean(): bins of freq hours from the first sample's bin to the
\* last sample's
ResampleMean(series, freq) ==
    IF series = <<>> THEN [t0 |-> 0, step |-> freq, vals |-> <<>>]
    ELSE LET b0 == series[1].t \div freq
             b1 == series[Len(series)].t \div freq
         IN  [t0 |-> b0 * freq, step |-> freq, vals |-> BinMeans(series, freq, b0, b1)]

\* timestamp of grid point i
GridTime(grid, i) == grid.t0 + (i - 1) * grid.step

\* interpolate(): linear between the valid neighbours, the last valid value after
\* the last valid point, NaN before the first
Interpolate(vals) ==
    [i \in 1..Len(vals) |->
        IF vals[i] # NaN THEN vals[i]
        ELSE LET Before == {j \in 1..(i - 1) : vals[j] # NaN}
                 After == {j \in (i + 1)..Len(vals) : vals[j] # NaN}
             IN  IF Before = {} THEN NaN
                 ELSE IF After = {} THEN vals[SetMax(Before)]
                 ELSE LET p == SetMax(Before)
                          q == SetMin(After)
                      IN  <<vals[p][1] + ((vals[q][1] - vals[p][1]) * (i - p)) \div (q - p)>>]

DiffFromZero(vals, periods) ==
    [i \in 1..Len(vals) |->
        IF vals[i] = NaN THEN NaN
        ELSE IF i <= periods \/ vals[i - periods] = NaN THEN <<0>>
        ELSE <<vals[i][1] - vals[i - periods][1]>>]

\* diff(periods): NaN for the first `periods` points and wherever an operand is NaN
Diff(vals, periods) ==
    [i \in 1..Len(vals) |->
        IF i <= periods \/ vals[i] = NaN \/ vals[i - periods] = NaN THEN NaN
        ELSE <<vals[i][1] - vals[i - periods][1]>>]

\* the grid points of the rolling window that ends at i
Window(i, window) == (i - window + 1)..i

\* rolling(window, min_periods=window): NaN until the window is full and whenever
\* it holds a NaN
FullWindow(vals, i, window) ==
    i >= window /\ \A j \in Window(i, window) : vals[j] # NaN

RollingMin(vals, window) ==
    [i \in 1..Len(vals) |->
        IF ~FullWindow(vals, i, window) THEN NaN
        ELSE <<SetMin({vals[j][1] : j \in Window(i, window)})>>]

RollingMax(vals, window) ==
    [i \in 1..Len(vals) |->
        IF ~FullWindow(vals, i, window) THEN NaN
        ELSE <<SetMax({vals[j][1] : j \in Window(i, window)})>>]

\* Series.max() over grid points lo..hi, NaN skipped
SliceMax(vals, lo, hi) ==
    LET S == {vals[j][1] : j \in {k \in lo..hi : vals[k] # NaN}}
    IN  IF S = {} THEN NaN ELSE <<SetMax(S)>>

----------------------------------------------------------------------------
(* precursors.py *)

PrecursorEvent(type, at, value, severity) ==
    [precursor_type |-> type, detected_at |-> at, value |-> value,
     severity |-> severity, hours_before_peak |-> 0]

\* calculate_rise_rate: hourly grid, change over the window, units per day
CalculateRiseRate(series, window_hours) ==
    LET hourly == ResampleMean(series, 1)
        filled == Interpolate(hourly.vals)
        rise == Diff(filled, window_hours)
    IN  [t0 |-> hourly.t0, step |-> 1,
         vals |-> [i \in 1..Len(rise) |->
                     IF rise[i] = NaN THEN NaN
                     ELSE <<(rise[i][1] * HoursPerDay) \div window_hours>>]]

\* rapid = rise_rate > threshold_ft_per_day (a comparison with NaN is False)
RapidMask(rates, threshold) ==
    [i \in 1..Len(rates) |-> rates[i] # NaN /\ rates[i][1] > threshold]

RapidSeverity(max_rate) ==
    IF max_rate > 2 * UnitsPerFoot THEN "major"
    ELSE IF max_rate > 1 * UnitsPerFoot THEN "moderate"
    ELSE "minor"

KeepRunStrict(duration, min_duration_hours) == duration > min_duration_hours

\* if duration >= min_duration_hours
KeepRun(duration, min_duration_hours) == duration >= min_duration_hours

RunMaxRateAtStart(rates, start, stop) == rates[start][1]

\* rise_rate[event_start:timestamp].max(): a label slice, both ends included
RunMaxRate(rates, start, stop) == SliceMax(rates, start, stop)[1]

\* the event appended when the sample at grid point `stop` ends the run begun at `start`
RapidEvent(rate, start, stop) ==
    LET max_rate == RunMaxRate(rate.vals, start, stop)
    IN  PrecursorEvent("rapid_rise", GridTime(rate, start), max_rate, RapidSeverity(max_rate))

AfterLoopFlush(rate, min_duration_hours, in_event, event_start, found) ==
    IF in_event /\ event_start <= Len(rate.vals)
    THEN Append(found, RapidEvent(rate, event_start, Len(rate.vals)))
    ELSE found

\* after the loop: return events, whatever in_event is
AfterLoop(rate, min_duration_hours, in_event, event_start, found) == found

\* the first grid point after i where the mask differs from its value at i, or
\* the end of the grid: the samples in between leave the loop's state as it is
NextChange(rapid, i) ==
    LET Changes == {j \in (i + 1)..Len(rapid) : rapid[j] # rapid[i]}
    IN  IF Changes = {} THEN Len(rapid) + 1 ELSE SetMin(Changes)

\* the loop over rapid.items(): i is the grid point examined next
RECURSIVE ScanRapid(_, _, _, _, _, _, _)
ScanRapid(rate, rapid, min_duration_hours, i, in_event, event_start, found) ==
    IF i > Len(rapid)
    THEN AfterLoop(rate, min_duration_hours, in_event, event_start, found)
    ELSE IF rapid[i] /\ ~in_event
    THEN ScanRapid(rate, rapid, min_duration_hours, i + 1, TRUE, i, found)
    ELSE IF ~rapid[i] /\ in_event
    THEN LET duration == GridTime(rate, i) - GridTime(rate, event_start)
         IN  ScanRapid(rate, rapid, min_duration_hours, i + 1, FALSE, event_start,
                       IF KeepRun(duration, min_duration_hours)
                       THEN Append(found, RapidEvent(rate, event_start, i))
                       ELSE found)
    ELSE ScanRapid(rate, rapid, min_duration_hours, NextChange(rapid, i), in_event,
                   event_start, found)

\* detect_rapid_rise from the rise-rate grid on: the mask, then the scan
GroupRapidRuns(rate, threshold_ft_per_day, min_duration_hours) ==
    LET rapid == RapidMask(rate.vals, threshold_ft_per_day)
    IN  ScanRapid(rate, rapid, min_duration_hours, 1, FALSE, 0, <<>>)

SustainedSeverityInclusive(rise_value) ==
    IF rise_value >= 6 * UnitsPerFoot THEN "major"
    ELSE IF rise_value >= 4 * UnitsPerFoot THEN "moderate"
    ELSE "minor"

SustainedSeverity(rise_value) ==
    IF rise_value > 6 * UnitsPerFoot THEN "major"
    ELSE IF rise_value > 4 * UnitsPerFoot THEN "moderate"
    ELSE "minor"

\* total_rise = rolling_max - rolling_min on the daily means
TotalRise(daily_vals, days) ==
    LET rolling_min == RollingMin(daily_vals, days)
        rolling_max == RollingMax(daily_vals, days)
    IN  [i \in 1..Len(daily_vals) |->
            IF rolling_min[i] = NaN \/ rolling_max[i] = NaN THEN NaN
            ELSE <<rolling_max[i][1] - rolling_min[i][1]>>]

StartedEveryDay(sustained) == sustained

\* started = sustained & ~sustained.shift(1, fill_value=False)
Started(sustained) ==
    [i \in 1..Len(sustained) |->
        sustained[i] /\ ~(IF i = 1 THEN FALSE ELSE sustained[i - 1])]

\* the loop over started[started].index
RECURSIVE SustainedEvents(_, _, _, _)
SustainedEvents(daily, total_rise, started, i) ==
    IF i > Len(started) THEN <<>>
    ELSE (IF started[i]
          THEN <<PrecursorEvent("sustained_rise", GridTime(daily, i), total_rise[i][1],
                                SustainedSeverity(total_rise[i][1]))>>
          ELSE <<>>)
         \o SustainedEvents(daily, total_rise, started, i + 1)

\* detect_sustained_rise from the daily means on
GroupSustainedRuns(daily, threshold_ft, days) ==
    LET total_rise == TotalRise(daily.vals, days)
        sustained == [i \in 1..Len(total_rise) |->
                         total_rise[i] # NaN /\ total_rise[i][1] > threshold_ft]
    IN  SustainedEvents(daily, total_rise, Started(sustained), 1)

----------------------------------------------------------------------------
(* Arguments *)

\* hourly stage levels
Levels == {2 * k : k \in 0..MaxLevel}

\* the level of the warm-up window: the lowest or the highest
WarmUpLevels == {0, 2 * MaxLevel}

\* daily stage levels: 0, 2 ft, 4 ft, ...
DailyLevels == {2 * UnitsPerFoot * k : k \in 0..MaxDailyLevel}

\* thresholds in units per day: below every rate of a flat series, 0.5 ft/day, 1.5 ft/day
RapidThresholds == {0 - UnitsPerFoot, UnitsPerFoot \div 2, (3 * UnitsPerFoot) \div 2}

\* thresholds in units: 1 ft, 3 ft
SustainedThresholds == {UnitsPerFoot, 3 * UnitsPerFoot}

Dense(n, values) == [1..n -> {<<level>> : level \in values} \cup {NaN}]

\* no two missing grid points in a row: the interpolated value is then a whole number
GapsAtMostOne(dense) ==
    \A i \in 1..(Len(dense) - 1) : ~(dense[i] = NaN /\ dense[i + 1] = NaN)

\* a warm-up window at one level followed by TailLen free hourly samples
RapidStages ==
    {GridToSeries([i \in 1..WindowHours |-> <<base>>] \o tail, 0, 1) :
        base \in WarmUpLevels, tail \in {d \in Dense(TailLen, Levels) : GapsAtMostOne(d)}}

\* at most one sample a day, taken at noon
SustainedStages ==
    {GridToSeries(d, HoursPerDay \div 2, HoursPerDay) : d \in Dense(MaxDays, DailyLevels)}

EmptyGrid == [t0 |-> 0, step |-> 1, vals |-> <<>>]

CorrelationIdle ==
    /\ upstream = <<>>
    /\ downstream = <<>>
    /\ max_lag_hours = 0
    /\ lag_hours = <<>>
    /\ auto_detect_lag = FALSE
    /\ overlap = <<>>
    /\ lag_index = <<>>
    /\ corr = <<>>
    /\ data = <<>>
    /\ station_order = <<>>
    /\ rows = <<>>

RegressionIdle ==
    /\ pwlf_available = TRUE
    /\ x = <<>>
    /\ y = <<>>
    /\ n_segments = 0
    /\ breakpoint_init = <<>>
    /\ solver_rows = <<>>
    /\ fitted = <<>>

SelectionIdle ==
    /\ max_segments = 0
    /\ r_squared_values = <<>>
    /\ optimal = <<>>

PredictIdle ==
    /\ model = <<>>
    /\ x_new = <<>>
    /\ y_pred = <<>>

SummaryIdle ==
    /\ rate_window = 0
    /\ rapid_mask = <<>>
    /\ peak_time = 0
    /\ lookback_days = 0
    /\ metrics = <<>>

AuxIdle == SelectionIdle /\ PredictIdle /\ SummaryIdle

PrecursorIdle ==
    /\ stage = <<>>
    /\ rise_rate = EmptyGrid
    /\ stage_daily = EmptyGrid
    /\ rate_threshold = 0
    /\ min_duration = 0
    /\ rise_threshold = 0
    /\ window_days = 0
    /\ events = <<>>

----------------------------------------------------------------------------
(* detect_rapid_rise *)

InitRapid ==
    /\ pc = "ready"
    /\ error = "none"
    /\ AuxIdle
    /\ stage \in RapidStages
    /\ rate_threshold \in RapidThresholds
    /\ min_duration \in 1..MaxMinDuration
    /\ rise_threshold = 0
    /\ window_days = 0
    /\ rise_rate = EmptyGrid
    /\ stage_daily = EmptyGrid
    /\ events = <<>>
    /\ CorrelationIdle
    /\ RegressionIdle

CallDetectRapidRise ==
    /\ pc = "ready"
    /\ rise_rate' = CalculateRiseRate(stage, WindowHours)
    /\ events' = GroupRapidRuns(rise_rate', rate_threshold, min_duration)
    /\ pc' = "returned"
    /\ UNCHANGED <<aux_vars, error, stage, rate_threshold, min_duration, rise_threshold,
                   window_days, stage_daily, correlation_vars, regression_vars>>

NextRapid == CallDetectRapidRise

SpecRapid == InitRapid /\ [][NextRapid]_vars

----------------------------------------------------------------------------
(* detect_sustained_rise *)

InitSustained ==
    /\ pc = "ready"
    /\ error = "none"
    /\ AuxIdle
    /\ stage \in SustainedStages
    /\ rise_threshold \in SustainedThresholds
    /\ window_days \in 1..MaxWindowDays
    /\ rate_threshold = 0
    /\ min_duration = 0
    /\ rise_rate = EmptyGrid
    /\ stage_daily = EmptyGrid
    /\ events = <<>>
    /\ CorrelationIdle
    /\ RegressionIdle

CallDetectSustainedRise ==
    /\ pc = "ready"
    /\ stage_daily' = ResampleMean(stage, HoursPerDay)
    /\ events' = GroupSustainedRuns(stage_daily', rise_threshold, window_days)
    /\ pc' = "returned"
    /\ UNCHANGED <<aux_vars, error, stage, rate_threshold, min_duration, rise_threshold,
                   window_days, rise_rate, correlation_vars, regression_vars>>

NextSustained == CallDetectSustainedRise

SpecSustained == InitSustained /\ [][NextSustained]_vars

----------------------------------------------------------------------------
(* Properties of detect_rapid_rise *)

\* the rise-rate grid of the call's stage series
RateGrid == rise_rate

NRates == Len(RateGrid.vals)

\* the sample at grid point i has a rate above rate_threshold
Exceeds(i) == RateGrid.vals[i] # NaN /\ RateGrid.vals[i][1] > rate_threshold

\* grid point i begins a maximal run of exceeding samples
RunStart(i) == Exceeds(i) /\ (i = 1 \/ ~Exceeds(i - 1))

\* the grid points after s that do not exceed: the first of them closes the run at s
Closers(s) == {c \in (s + 1)..NRates : ~Exceeds(c)}

\* the runs that are closed and last at least min_duration hours, by first grid point
KeptRuns ==
    {s \in 1..NRates :
        /\ RunStart(s)
        /\ Closers(s) # {}
        /\ GridTime(RateGrid, SetMin(Closers(s))) - GridTime(RateGrid, s) >= min_duration}

\* grid point of an event's onset
OnsetPoint(e) == e.detected_at - RateGrid.t0 + 1

\* C1: every event detect_rapid_rise returns belongs to a run that a later sample,
\* whose rate does not exceed rate_threshold, closed; a run still open at the
\* final sample yields no event
C1_OnlyClosedRuns ==
    pc = "returned" =>
        \A k \in 1..Len(events) :
            LET s == OnsetPoint(events[k])
            IN  /\ s \in 1..NRates
                /\ RunStart(s)
                /\ \E c \in (s + 1)..NRates :
                      ~Exceeds(c) /\ \A j \in s..(c - 1) : Exceeds(j)

\* a run of at least min_duration hours is still open at the final sample
C1_Witness ==
    /\ pc = "returned"
    /\ \E s \in 1..NRates :
          /\ RunStart(s)
          /\ Closers(s) = {}
          /\ NRates - s >= min_duration
    /\ events # <<>>

\* C2: the events are, in order and once each, the closed maximal runs lasting at
\* least min_duration hours from first sample to closing sample, each dated at its
\* run's first sample; shorter closed runs and flat series yield nothing
C2_OneEventPerKeptRun ==
    pc = "returned" =>
        /\ Len(events) = Cardinality(KeptRuns)
        /\ \A k \in 1..Len(events) : OnsetPoint(events[k]) \in KeptRuns
        /\ \A k \in 1..(Len(events) - 1) :
              events[k].detected_at < events[k + 1].detected_at
        /\ (\A i, j \in 1..Len(stage) : stage[i].v = stage[j].v) => events = <<>>

\* one run was emitted and a shorter closed run of the same series was dropped
C2_Witness ==
    /\ pc = "returned"
    /\ Len(events) = 1
    /\ \E s \in 1..NRates : RunStart(s) /\ Closers(s) # {} /\ s \notin KeptRuns

\* C3: an event's value is the largest rate among the samples of its own run
C3_MagnitudeIsRunMax ==
    pc = "returned" =>
        \A k \in 1..Len(events) :
            LET s == OnsetPoint(events[k])
                c == SetMin(Closers(s))
            IN  /\ \E j \in s..(c - 1) : RateGrid.vals[j][1] = events[k].value
                /\ \A j \in s..(c - 1) : RateGrid.vals[j][1] <= events[k].value

\* the largest rate of an emitted run is not its first sample's
C3_Witness ==
    /\ pc = "returned"
    /\ \E k \in 1..Len(events) :
          events[k].value > RateGrid.vals[OnsetPoint(events[k])][1]

----------------------------------------------------------------------------
(* Properties of detect_sustained_rise *)

DailyGrid == stage_daily

NDaysSeen == Len(DailyGrid.vals)

\* day d has a full window of window_days daily means whose range exceeds rise_threshold
DayFlag(d) ==
    /\ d >= window_days
    /\ \A j \in (d - window_days + 1)..d : DailyGrid.vals[j] # NaN
    /\ \E a, b \in (d - window_days + 1)..d :
          DailyGrid.vals[a][1] - DailyGrid.vals[b][1] > rise_threshold

\* the rising edges: flagged days whose predecessor is not flagged (day 1 has none)
RisingEdges == {d \in 1..NDaysSeen : DayFlag(d) /\ (d = 1 \/ ~DayFlag(d - 1))}

DayPoint(e) == (e.detected_at - DailyGrid.t0) \div HoursPerDay + 1

\* C4: the events are, in order and once each, the first days of the maximal runs
\* of days whose full-window total rise exceeds rise_threshold
C4_OneEventPerRisingEdge ==
    pc = "returned" =>
        /\ Len(events) = Cardinality(RisingEdges)
        /\ \A k \in 1..Len(events) :
              /\ DayPoint(events[k]) \in RisingEdges
              /\ events[k].detected_at = GridTime(DailyGrid, DayPoint(events[k]))
        /\ \A k \in 1..(Len(events) - 1) :
              events[k].detected_at < events[k + 1].detected_at

\* the flag drops for one day and comes back: two events, and a flagged day that
\* is no rising edge
C4_Witness ==
    /\ pc = "returned"
    /\ Len(events) = 2
    /\ \E d \in 2..(NDaysSeen - 1) : ~DayFlag(d) /\ DayFlag(d - 1) /\ DayFlag(d + 1)
    /\ \E d \in 2..NDaysSeen : DayFlag(d) /\ DayFlag(d - 1)

----------------------------------------------------------------------------
(* correlation.py *)

\* the non-NaN points of a grid as a time series
GridSamples(grid) == GridToSeries(grid.vals, grid.t0, grid.step)

\* pd.DataFrame({'upstream': a, 'downstream': b}).dropna(): the rows, in time
\* order, of the timestamps both series hold
JoinDropNa(a, b) ==
    LET both == SelectSeq(a, LAMBDA s : \E j \in 1..Len(b) : b[j].t = s.t)
        At(t) == b[CHOOSE j \in 1..Len(b) : b[j].t = t].v
    IN  [i \in 1..Len(both) |->
            [t |-> both[i].t, upstream |-> both[i].v, downstream |-> At(both[i].t)]]

\* column - column.mean(), times len(column) so that it stays a whole number
Centered(column) ==
    LET total == SeqSum(column)
    IN  [i \in 1..Len(column) |-> Len(column) * column[i] - total]

RECURSIVE SumProducts(_, _, _, _, _)
SumProducts(a, b, k, l, last) ==
    IF l > last THEN 0
    ELSE a[l + k] * b[l] + SumProducts(a, b, k, l + 1, last)

\* the cross-correlation of a and b (both of length n) at offset k:
\* the sum of a[l+k]*b[l] over the l for which both exist
CrossCorrelation(a, b, k) ==
    LET n == Len(a)
        first == IF k < 0 THEN 1 - k ELSE 1
        last == IF k > 0 THEN n - k ELSE n
    IN  SumProducts(a, b, k, first, last)

\* scipy.signal.correlate(a, b, mode='same'): the n middle entries of the 2n-1
\* of the full output, entry i (from 0) being full entry i + (n-1) div 2, whose
\* offset is i + (n-1) div 2 - (n-1)
CorrelateSame(a, b) ==
    LET n == Len(a)
    IN  [i \in 0..(n - 1) |-> CrossCorrelation(a, b, i + (n - 1) \div 2 - (n - 1))]

\* np.argmax: the first position (from 0) that holds the largest entry
ArgMax(array) ==
    CHOOSE i \in DOMAIN array :
        /\ \A j \in DOMAIN array : array[j] <= array[i]
        /\ \A j \in DOMAIN array : j < i => array[j] < array[i]

\* the rows find_optimal_lag correlates: both series on the hourly grid, joined
LagFrame(up, down) ==
    JoinDropNa(GridSamples(ResampleMean(up, 1)), GridSamples(ResampleMean(down, 1)))

\* find_optimal_lag after the join: [raised |-> TRUE] when np.argmax is given an
\* empty slice, else the lag
FindOptimalLag(df, max_lag) ==
    LET down == Centered([i \in 1..Len(df) |-> df[i].downstream])
        up == Centered([i \in 1..Len(df) |-> df[i].upstream])
        correlation == CorrelateSame(down, up)
        center == Len(df) \div 2
        search_range == IF max_lag < center THEN max_lag ELSE center
        \* correlation[center-search_range:center+search_range]
        slice == [j \in 0..(2 * search_range - 1) |->
                     correlation[center - search_range + j]]
    IN  IF search_range <= 0
        THEN [raised |-> TRUE, lag |-> 0]
        ELSE [raised |-> FALSE, lag |-> ArgMax(slice) - search_range]

\* downstream.shift(freq=f'{-lag}H'): every timestamp moved by -lag hours
ShiftBack(series, lag) ==
    [i \in 1..Len(series) |-> [t |-> series[i].t - lag, v |-> series[i].v]]

\* CorrelationResult; pearson_r, p_value, r_squared, slope and intercept are the
\* floats scipy.stats computes from the rows and are not carried
CorrelationResult(lag, df) == [lag_hours |-> lag, sample_size |-> Len(df)]

\* correlate_stations: what it raises ("none" if it returns), the lag it settled
\* on (<<>> if it never did), the rows it aligned and its result
CorrelateStations(up, down, lag_arg, auto) ==
    LET detected == FindOptimalLag(LagFrame(up, down), DefaultMaxLag)
        lag == IF auto /\ lag_arg = <<>> THEN detected.lag
               ELSE IF lag_arg = <<>> THEN 0
               ELSE lag_arg[1]
        df == JoinDropNa(up, ShiftBack(down, lag))
    IN  IF auto /\ lag_arg = <<>> /\ detected.raised
        THEN [error |-> "argmax_empty", lag |-> <<>>, pairs |-> <<>>, result |-> <<>>]
        ELSE IF Len(df) < MinSamples
        THEN [error |-> "insufficient_data", lag |-> <<lag>>, pairs |-> <<Len(df)>>,
              result |-> <<>>]
        ELSE [error |-> "none", lag |-> <<lag>>, pairs |-> <<Len(df)>>,
              result |-> <<CorrelationResult(lag, df)>>]

----------------------------------------------------------------------------
(* Arguments *)

\* a series of one sample an hour from hour `start` on
Hourly(start, values) ==
    [i \in 1..Len(values) |-> [t |-> start + i - 1, v |-> values[i]]]

\* all 0/1 sequences of length 1 to n
Bits(n) == UNION {[1..m -> {0, 1}] : m \in 1..n}

\* a series of n samples that is 0 but for a 1 at its p-th sample
Pulse(start, n, p) == Hourly(start, [i \in 1..n |-> IF i = p THEN 1 ELSE 0])

----------------------------------------------------------------------------
(* find_optimal_lag *)

InitLag ==
    /\ pc = "ready"
    /\ error = "none"
    /\ AuxIdle
    /\ PrecursorIdle
    /\ upstream \in {Hourly(0, b) : b \in Bits(MaxSeriesLen)}
    /\ downstream \in {Hourly(start, b) : start \in 0..MaxStart, b \in Bits(MaxSeriesLen)}
    /\ max_lag_hours \in 1..MaxLagArg
    /\ lag_hours = <<>>
    /\ auto_detect_lag = FALSE
    /\ overlap = <<>>
    /\ lag_index = <<>>
    /\ corr = <<>>
    /\ data = <<>>
    /\ station_order = <<>>
    /\ rows = <<>>
    /\ RegressionIdle

\* np.argmax(...) raises ValueError: attempt to get an argmax of an empty sequence
FindOptimalLagRaises ==
    /\ pc = "ready"
    /\ FindOptimalLag(LagFrame(upstream, downstream), max_lag_hours).raised
    /\ overlap' = <<Len(LagFrame(upstream, downstream))>>
    /\ pc' = "raised"
    /\ error' = "argmax_empty"
    /\ UNCHANGED <<aux_vars, regression_vars, precursor_vars, upstream, downstream, max_lag_hours, lag_hours,
                   auto_detect_lag, lag_index, corr, data, station_order, rows>>

FindOptimalLagReturns ==
    /\ pc = "ready"
    /\ ~FindOptimalLag(LagFrame(upstream, downstream), max_lag_hours).raised
    /\ overlap' = <<Len(LagFrame(upstream, downstream))>>
    /\ lag_index' = <<FindOptimalLag(LagFrame(upstream, downstream), max_lag_hours).lag>>
    /\ pc' = "returned"
    /\ UNCHANGED <<aux_vars, regression_vars, precursor_vars, error, upstream, downstream, max_lag_hours, lag_hours,
                   auto_detect_lag, corr, data, station_order, rows>>

NextLag == FindOptimalLagRaises \/ FindOptimalLagReturns

SpecLag == InitLag /\ [][NextLag]_vars

----------------------------------------------------------------------------
(* Properties of find_optimal_lag *)

\* the mean-centred columns find_optimal_lag correlates
LagDown ==
    LET df == LagFrame(upstream, downstream)
    IN  Centered([i \in 1..Len(df) |-> df[i].downstream])

LagUp ==
    LET df == LagFrame(upstream, downstream)
    IN  Centered([i \in 1..Len(df) |-> df[i].upstream])

\* R = min(max_lag, half the correlation length)
SearchRadius ==
    IF max_lag_hours < overlap[1] \div 2 THEN max_lag_hours ELSE overlap[1] \div 2

\* the joined downstream column is the joined upstream column, a single pulse,
\* moved L samples later
PulseMovedBy(L) ==
    LET df == LagFrame(upstream, downstream)
    IN  \E p \in 1..Len(df) :
            /\ p + L \in 1..Len(df)
            /\ \A i \in 1..Len(df) :
                  /\ df[i].upstream = (IF i = p THEN 1 ELSE 0)
                  /\ df[i].downstream = (IF i = p + L THEN 1 ELSE 0)

\* C7: a call with fewer than max_lag overlapping hourly points (0 and 1 included)
\* still returns a lag
C7_ShortOverlapStillReturns ==
    (pc \in {"returned", "raised"} /\ overlap[1] < max_lag_hours) => pc = "returned"

\* C8: the returned lag k lies in -R..R, no offset of -R..R (both ends included)
\* has a larger cross-correlation than k, and a downstream pulse that trails the
\* upstream pulse by L (|L| <= R, at least 3 joined points) gives a lag within 1 of L
C8_LagMaximisesOverClosedRange ==
    pc = "returned" =>
        LET k == lag_index[1]
            R == SearchRadius
            down == LagDown
            up == LagUp
        IN  /\ 0 - R <= k /\ k <= R
            /\ \A j \in (0 - R)..R :
                  CrossCorrelation(down, up, j) <= CrossCorrelation(down, up, k)
            /\ \A L \in (0 - R)..R :
                  (PulseMovedBy(L) /\ overlap[1] >= 3) => (k - L \in {0 - 1, 0, 1})

\* what the slice does search: offsets -R..R-1
LagMaximisesOverHalfOpenRange ==
    pc = "returned" =>
        LET k == lag_index[1]
            R == SearchRadius
            down == LagDown
            up == LagUp
        IN  /\ 0 - R <= k /\ k < R
            /\ \A j \in (0 - R)..(R - 1) :
                  CrossCorrelation(down, up, j) <= CrossCorrelation(down, up, k)
            /\ \A L \in (0 - R)..(R - 1) : PulseMovedBy(L) /\ overlap[1] >= 3 => k = L

----------------------------------------------------------------------------
(* correlate_stations *)

\* series lengths around the minimum sample count, and the shortest one
CorrLens == {1} \cup (MinSamples - 1)..(MinSamples + MaxExtra)

\* flat series (p = 0) and pulses
CorrSeries(starts) ==
    {Pulse(start, n, p) : start \in starts, n \in CorrLens, p \in 0..MaxPulseAt}

InitCorr ==
    /\ pc = "ready"
    /\ error = "none"
    /\ AuxIdle
    /\ PrecursorIdle
    /\ upstream \in CorrSeries({0})
    /\ downstream \in CorrSeries(0..MaxStart)
    /\ max_lag_hours = DefaultMaxLag
    /\ lag_hours \in {<<>>} \cup {<<k>> : k \in (0 - MaxShift)..MaxShift}
    /\ auto_detect_lag \in BOOLEAN
    /\ overlap = <<>>
    /\ lag_index = <<>>
    /\ corr = <<>>
    /\ data = <<>>
    /\ station_order = <<>>
    /\ rows = <<>>
    /\ RegressionIdle

\* the exception of find_optimal_lag passes through correlate_stations
CorrelateRaisesFromLag ==
    /\ pc = "ready"
    /\ CorrelateStations(upstream, downstream, lag_hours, auto_detect_lag).error
          = "argmax_empty"
    /\ pc' = "raised"
    /\ error' = "argmax_empty"
    /\ UNCHANGED <<aux_vars, regression_vars, precursor_vars, correlation_vars>>

\* raise ValueError(f"Insufficient overlapping data points: {len(df)}")
CorrelateRaisesInsufficient ==
    LET out == CorrelateStations(upstream, downstream, lag_hours, auto_detect_lag)
    IN  /\ pc = "ready"
        /\ out.error = "insufficient_data"
        /\ pc' = "raised"
        /\ error' = "insufficient_data"
        /\ lag_index' = out.lag
        /\ overlap' = out.pairs
        /\ UNCHANGED <<aux_vars, regression_vars, precursor_vars, upstream, downstream, max_lag_hours, lag_hours,
                       auto_detect_lag, corr, data, station_order, rows>>

CorrelateReturns ==
    LET out == CorrelateStations(upstream, downstream, lag_hours, auto_detect_lag)
    IN  /\ pc = "ready"
        /\ out.error = "none"
        /\ pc' = "returned"
        /\ lag_index' = out.lag
        /\ overlap' = out.pairs
        /\ corr' = out.result
        /\ UNCHANGED <<aux_vars, regression_vars, precursor_vars, error, upstream, downstream, max_lag_hours,
                       lag_hours, auto_detect_lag, data, station_order, rows>>

NextCorr == CorrelateRaisesFromLag \/ CorrelateRaisesInsufficient \/ CorrelateReturns

SpecCorr == InitCorr /\ [][NextCorr]_vars

----------------------------------------------------------------------------
(* Properties of correlate_stations *)

\* the upstream samples that a downstream sample meets once downstream is moved
\* back by `lag` hours
PairsAt(lag) ==
    Cardinality({i \in 1..Len(upstream) :
                    \E j \in 1..Len(downstream) : downstream[j].t - lag = upstream[i].t})

\* the smaller of the two series' lengths: no lag aligns more pairs than that
MostPairs == IF Len(upstream) < Len(downstream) THEN Len(upstream) ELSE Len(downstream)

\* C5: with 9 or fewer aligned pairs the call raises the insufficient-data error,
\* with 10 or more it returns, and a returned sample_size is the number of
\* aligned pairs and at least 10
C5_TenPairsThreshold ==
    pc \in {"returned", "raised"} =>
        /\ (lag_index # <<>> /\ PairsAt(lag_index[1]) <= MinSamples - 1)
              => (pc = "raised" /\ error = "insufficient_data")
        /\ (lag_index # <<>> /\ PairsAt(lag_index[1]) >= MinSamples)
              => (pc = "returned" /\ corr[1].sample_size = PairsAt(lag_index[1]))
        /\ (lag_index = <<>> /\ MostPairs <= MinSamples - 1)
              => (pc = "raised" /\ error = "insufficient_data")
        /\ pc = "returned" => corr[1].sample_size >= MinSamples

\* the threshold itself, for the calls that settle on a lag
TenPairsThresholdOnceLagKnown ==
    (pc \in {"returned", "raised"} /\ lag_index # <<>>) =>
        /\ PairsAt(lag_index[1]) <= MinSamples - 1
              => (pc = "raised" /\ error = "insufficient_data")
        /\ PairsAt(lag_index[1]) >= MinSamples
              => (pc = "returned" /\ corr[1].sample_size = PairsAt(lag_index[1]))

----------------------------------------------------------------------------
(* analyze_station_network *)

Row(up_code, down_code, result) ==
    [upstream |-> up_code, downstream |-> down_code,
     lag_hours |-> result.lag_hours, sample_size |-> result.sample_size]

PairRowsEvenIfFailed(series_by_code, up_code, down_code) ==
    <<[upstream |-> up_code, downstream |-> down_code, lag_hours |-> 0, sample_size |-> 0]>>

\* the body of the loop: a KeyError of data[...] and whatever correlate_stations
\* raises are caught and logged; only a result appends a row
PairRows(series_by_code, up_code, down_code) ==
    IF up_code \notin DOMAIN series_by_code \/ down_code \notin DOMAIN series_by_code
    THEN <<>>
    ELSE LET out == CorrelateStations(series_by_code[up_code], series_by_code[down_code],
                                      <<>>, TRUE)
         IN  IF out.error # "none" THEN <<>>
             ELSE <<Row(up_code, down_code, out.result[1])>>

\* for i in range(len(station_order) - 1), from i on (i counted from 1)
RECURSIVE AnalyzeStationNetwork(_, _, _)
AnalyzeStationNetwork(series_by_code, order, i) ==
    IF i > Len(order) - 1 THEN <<>>
    ELSE PairRows(series_by_code, order[i], order[i + 1])
         \o AnalyzeStationNetwork(series_by_code, order, i + 1)

Stations == {"A", "B", "C"}

\* a one-sample series, and series of MinSamples + 1 samples with a pulse each
NetSeries ==
    {Pulse(0, 1, 1)} \cup {Pulse(0, MinSamples + 1, p) : p \in {4, 5, 8}}

InitNet ==
    /\ pc = "ready"
    /\ error = "none"
    /\ AuxIdle
    /\ PrecursorIdle
    /\ upstream = <<>>
    /\ downstream = <<>>
    /\ max_lag_hours = DefaultMaxLag
    /\ lag_hours = <<>>
    /\ auto_detect_lag = TRUE
    /\ overlap = <<>>
    /\ lag_index = <<>>
    /\ corr = <<>>
    /\ data \in UNION {[have -> NetSeries] : have \in SUBSET Stations}
    /\ station_order \in UNION {[1..n -> Stations] : n \in 0..MaxChain}
    /\ rows = <<>>
    /\ RegressionIdle

CallAnalyzeStationNetwork ==
    /\ pc = "ready"
    /\ rows' = AnalyzeStationNetwork(data, station_order, 1)
    /\ pc' = "returned"
    /\ UNCHANGED <<aux_vars, regression_vars, precursor_vars, error, upstream, downstream, max_lag_hours, lag_hours,
                   auto_detect_lag, overlap, lag_index, corr, data, station_order>>

NextNet == CallAnalyzeStationNetwork

SpecNet == InitNet /\ [][NextNet]_vars

----------------------------------------------------------------------------
(* Properties of analyze_station_network *)

\* the call correlate_stations(data[up], data[down]) of pair i returns
PairSucceeds(i) ==
    /\ station_order[i] \in DOMAIN data
    /\ station_order[i + 1] \in DOMAIN data
    /\ CorrelateStations(data[station_order[i]], data[station_order[i + 1]],
                         <<>>, TRUE).error = "none"

GoodPairs == {i \in 1..(Len(station_order) - 1) : PairSucceeds(i)}

\* the k-th pair, in chain order, that succeeds
KthGoodPair(k) ==
    CHOOSE i \in GoodPairs : Cardinality({j \in GoodPairs : j <= i}) = k

\* C6: the call returns, and its rows are the adjacent pairs that correlate, one
\* row each, in chain order
C6_RowsAreTheGoodPairs ==
    pc # "raised" /\
    (pc = "returned" =>
        /\ Len(rows) = Cardinality(GoodPairs)
        /\ \A k \in 1..Len(rows) :
              /\ rows[k].upstream = station_order[KthGoodPair(k)]
              /\ rows[k].downstream = station_order[KthGoodPair(k) + 1])

\* a chain of three whose first pair, both codes known, fails inside
\* correlate_stations and whose second pair yields the only row
C6_Witness ==
    /\ pc = "returned"
    /\ Len(station_order) = 3
    /\ 1 \notin GoodPairs
    /\ 2 \in GoodPairs
    /\ station_order[1] \in DOMAIN data
    /\ Len(rows) = 1

----------------------------------------------------------------------------
(* regression.py *)

\* a float of x or y: a number, NaN or an infinity
Num(v) == [kind |-> "num", v |-> v]

NanF == [kind |-> "nan", v |-> 0]

InfF == [kind |-> "inf", v |-> 0]

\* mask = ~(np.isnan(x) | np.isnan(y)); x[mask], y[mask]: the rows kept, as
\* positions of x
MaskedRows(xs, ys) ==
    SelectSeq([i \in 1..Len(xs) |-> i],
              LAMBDA i : ~(xs[i].kind = "nan" \/ ys[i].kind = "nan"))

\* what fit_segmented_regression decides before it reaches pwlf
Validate(available, xs, ys, segments) ==
    IF ~available THEN "import_error"
    ELSE IF Len(xs) # Len(ys) THEN "value_error"
    ELSE IF Len(xs) < segments + 1 THEN "value_error"
    ELSE "none"

\* the solver is taken to return when it is given two or more rows, all finite
SolverReturns(xs, ys, kept) ==
    /\ Len(kept) >= 2
    /\ \A i \in 1..Len(kept) : xs[kept[i]].kind = "num" /\ ys[kept[i]].kind = "num"

\* model.fit_breaks after model.fit_with_breaks(breaks): the breaks as given;
\* after model.fit(n): n + 1 locations, the i-th one found by the optimizer
FitBreaks(segments, breaks) ==
    IF breaks # <<>> THEN [i \in 1..Len(breaks[1]) |-> Num(breaks[1][i])]
    ELSE [i \in 1..(segments + 1) |-> [kind |-> "optimized", v |-> i]]

\* model.slopes, model.intercepts: one per interval between consecutive breaks
FitLines(fit_breaks) ==
    [i \in 1..(Len(fit_breaks) - 1) |-> [kind |-> "fitted", v |-> i]]

\* RegressionResult; r_squared and rmse are floats and are not carried
RegressionResult(segments, breaks) ==
    LET fit_breaks == FitBreaks(segments, breaks)
    IN  [breakpoints |-> fit_breaks, slopes |-> FitLines(fit_breaks),
         intercepts |-> FitLines(fit_breaks), n_segments |-> segments]

----------------------------------------------------------------------------
(* fit_segmented_regression *)

\* sequences of length 0..n whose i-th entry is Num(i) or one of `others`
Floats(n, others) == UNION {[1..m -> {Num(0)} \cup others] : m \in 0..n}

Numbered(xs) == [i \in 1..Len(xs) |-> IF xs[i].kind = "num" THEN Num(i) ELSE xs[i]]

InitFit ==
    /\ pc = "ready"
    /\ error = "none"
    /\ AuxIdle
    /\ PrecursorIdle
    /\ CorrelationIdle
    /\ pwlf_available \in BOOLEAN
    /\ x \in {Numbered(xs) : xs \in Floats(MaxPoints, {NanF, InfF})}
    /\ y \in {Numbered(ys) : ys \in Floats(MaxPoints, {NanF})}
    /\ n_segments \in 1..MaxSegments
    /\ breakpoint_init \in {<<>>} \cup {<<[i \in 1..m |-> i]>> : m \in 2..MaxBreaks}
    /\ solver_rows = <<>>
    /\ fitted = <<>>

\* raise ImportError / raise ValueError, before pwlf is reached
FitRejects ==
    /\ pc = "ready"
    /\ Validate(pwlf_available, x, y, n_segments) # "none"
    /\ pc' = "raised"
    /\ error' = Validate(pwlf_available, x, y, n_segments)
    /\ UNCHANGED <<aux_vars, precursor_vars, correlation_vars, pwlf_available, x, y, n_segments,
                   breakpoint_init, solver_rows, fitted>>

\* pwlf is called with the masked rows and fails on them
FitSolverRaises ==
    /\ pc = "ready"
    /\ Validate(pwlf_available, x, y, n_segments) = "none"
    /\ ~SolverReturns(x, y, MaskedRows(x, y))
    /\ solver_rows' = <<MaskedRows(x, y)>>
    /\ pc' = "raised"
    /\ error' = "solver_error"
    /\ UNCHANGED <<aux_vars, precursor_vars, correlation_vars, pwlf_available, x, y, n_segments,
                   breakpoint_init, fitted>>

FitReturns ==
    /\ pc = "ready"
    /\ Validate(pwlf_available, x, y, n_segments) = "none"
    /\ SolverReturns(x, y, MaskedRows(x, y))
    /\ solver_rows' = <<MaskedRows(x, y)>>
    /\ fitted' = <<RegressionResult(n_segments, breakpoint_init)>>
    /\ pc' = "returned"
    /\ UNCHANGED <<aux_vars, precursor_vars, correlation_vars, error, pwlf_available, x, y,
                   n_segments, breakpoint_init>>

NextFit == FitRejects \/ FitSolverRaises \/ FitReturns

SpecFit == InitFit /\ [][NextFit]_vars

----------------------------------------------------------------------------
(* Properties of fit_segmented_regression *)

\* the rows whose x and y are both finite
FinitePairs ==
    Cardinality({i \in 1..Len(x) : x[i].kind = "num" /\ y[i].kind = "num"})

\* C9: with pwlf installed, x and y of different lengths, or fewer than
\* n_segments + 1 rows left once those with a non-finite x or y are dropped, end
\* the call with the validation error before the solver is called
C9_TooFewFinitePairsRejected ==
    (/\ pc \in {"returned", "raised"}
     /\ pwlf_available
     /\ (Len(x) # Len(y) \/ FinitePairs < n_segments + 1))
        => (pc = "raised" /\ error = "value_error" /\ solver_rows = <<>>)

\* what the checks do reject: unequal lengths, or fewer than n_segments + 1 rows
\* before any row is dropped
RejectedOnRawLength ==
    (pc \in {"returned", "raised"} /\ pwlf_available) =>
        ((Len(x) # Len(y) \/ Len(x) < n_segments + 1)
            <=> (pc = "raised" /\ error = "value_error" /\ solver_rows = <<>>))

\* C10: a returned model has n_segments + 1 breakpoints and n_segments slopes and
\* intercepts, with or without breakpoint_init
C10_ArraysMatchSegmentCount ==
    pc = "returned" =>
        /\ Len(fitted[1].breakpoints) = fitted[1].n_segments + 1
        /\ Len(fitted[1].slopes) = fitted[1].n_segments
        /\ Len(fitted[1].intercepts) = fitted[1].n_segments

\* the arrays do match when the solver places the breakpoints itself
ArraysMatchWithoutBreakpointInit ==
    (pc = "returned" /\ breakpoint_init = <<>>) =>
        /\ Len(fitted[1].breakpoints) = fitted[1].n_segments + 1
        /\ Len(fitted[1].slopes) = fitted[1].n_segments
        /\ Len(fitted[1].intercepts) = fitted[1].n_segments

----------------------------------------------------------------------------
(* find_optimal_segments *)

\* R^2 values are integers counted in hundredths, so an improvement of 0.01 is 1
\* find_optimal_segments tries max_segments in 1..MaxSegmentsTried
MaxSegmentsTried == 4
\* the R^2 of a fit is one of 0, 0.01, .., MaxR2 hundredths
MaxR2 == 3

\* improvements < 0.01
ElbowThreshold == 1

\* np.diff(r_squared_values)
Improvements(r2) == [i \in 1..(Len(r2) - 1) |-> r2[i + 1] - r2[i]]

\* np.argmax of a non-empty boolean array: the 0-based position of the first True,
\* and 0 when no entry is True
ArgMaxBool(mask) ==
    LET Hits == {i \in 1..Len(mask) : mask[i]}
    IN  IF Hits = {} THEN 0 ELSE SetMin(Hits) - 1

\* the elbow detection once the R^2 values are collected
ElbowCount(r2, max) ==
    LET improvements == Improvements(r2)
        small == [i \in 1..Len(improvements) |-> improvements[i] < ElbowThreshold]
        first == ArgMaxBool(small) + 1
    IN  IF first = 0 THEN max ELSE first

\* the fits for 1..max_segments are taken to return; r_squared_values holds the R^2
\* they report, in any order of size
InitSelect ==
    /\ pc = "ready"
    /\ error = "none"
    /\ PrecursorIdle
    /\ CorrelationIdle
    /\ PredictIdle
    /\ SummaryIdle
    /\ pwlf_available \in BOOLEAN
    /\ x = <<>>
    /\ y = <<>>
    /\ n_segments = 0
    /\ breakpoint_init = <<>>
    /\ solver_rows = <<>>
    /\ fitted = <<>>
    /\ max_segments \in 1..MaxSegmentsTried
    /\ r_squared_values \in [1..max_segments -> 0..MaxR2]
    /\ optimal = <<>>

\* if pwlf is None: raise ImportError
SelectRaisesImport ==
    /\ pc = "ready"
    /\ ~pwlf_available
    /\ pc' = "raised"
    /\ error' = "import_error"
    /\ UNCHANGED <<precursor_vars, correlation_vars, regression_vars, selection_vars,
                   predict_vars, summary_vars>>

\* np.argmax raises ValueError on the empty array np.diff gives for one R^2 value
SelectRaisesArgmax ==
    /\ pc = "ready"
    /\ pwlf_available
    /\ Improvements(r_squared_values) = <<>>
    /\ pc' = "raised"
    /\ error' = "argmax_empty"
    /\ UNCHANGED <<precursor_vars, correlation_vars, regression_vars, selection_vars,
                   predict_vars, summary_vars>>

SelectReturns ==
    /\ pc = "ready"
    /\ pwlf_available
    /\ Improvements(r_squared_values) # <<>>
    /\ optimal' = <<ElbowCount(r_squared_values, max_segments)>>
    /\ pc' = "returned"
    /\ UNCHANGED <<error, precursor_vars, correlation_vars, regression_vars,
                   max_segments, r_squared_values, predict_vars, summary_vars>>

NextSelect == SelectRaisesImport \/ SelectRaisesArgmax \/ SelectReturns

SpecSelect == InitSelect /\ [][NextSelect]_vars

----------------------------------------------------------------------------
(* Properties of find_optimal_segments *)

\* the counts n whose successor improves R^2 by less than 0.01
SmallGains ==
    {n \in 1..(max_segments - 1) :
        r_squared_values[n + 1] - r_squared_values[n] < ElbowThreshold}

\* C11: with pwlf installed the call returns the smallest count whose successor
\* improves R^2 by less than 0.01, and max_segments when no successor does (as
\* when max_segments = 1)
C11_SmallestCountBeforeSmallGain ==
    (pc \in {"returned", "raised"} /\ pwlf_available) =>
        /\ pc = "returned"
        /\ optimal = <<IF SmallGains = {} THEN max_segments ELSE SetMin(SmallGains)>>

\* when some successor's gain is small the smallest such count is returned
SmallestCountWhenSomeGainIsSmall ==
    (pc \in {"returned", "raised"} /\ pwlf_available /\ SmallGains # {}) =>
        (pc = "returned" /\ optimal = <<SetMin(SmallGains)>>)

\* when every gain is 0.01 or more the call returns 1, and raises for max_segments = 1
OneWhenEveryGainIsLarge ==
    (pc \in {"returned", "raised"} /\ pwlf_available /\ SmallGains = {}) =>
        IF max_segments = 1 THEN pc = "raised" /\ error = "argmax_empty"
        ELSE pc = "returned" /\ optimal = <<1>>

----------------------------------------------------------------------------
(* compute_precursor_metrics *)

\* compute_precursor_metrics is given up to MaxEvents events
MaxEvents == 2
\* hours_before_peak of a given event is 0, 6, .., 6*MaxWarning
MaxWarning == 2

\* the largest entry of a sequence of numbers, `default` for the empty sequence
MaxOrDefault(numbers, default) ==
    IF numbers = <<>> THEN default
    ELSE SetMax({numbers[i] : i \in 1..Len(numbers)})

MaxValueOfAll(evs) ==
    MaxOrDefault([i \in 1..Len(evs) |-> evs[i].value], 0)

\* max((e.value for e in rapid_events), default=0)
MaxRiseRate(evs) ==
    LET rapid_events == SelectSeq(evs, LAMBDA e : e.precursor_type = "rapid_rise")
    IN  MaxOrDefault([i \in 1..Len(rapid_events) |-> rapid_events[i].value], 0)

\* the dictionary compute_precursor_metrics returns
ComputePrecursorMetrics(evs) ==
    IF evs = <<>>
    THEN [total_events |-> 0, earliest_warning_hours |-> 0, max_rise_rate |-> 0,
          major_events |-> 0]
    ELSE LET rapid_events == SelectSeq(evs, LAMBDA e : e.precursor_type = "rapid_rise")
             major_events == SelectSeq(evs, LAMBDA e : e.severity = "major")
             sustained == SelectSeq(evs, LAMBDA e : e.precursor_type = "sustained_rise")
         IN  [total_events |-> Len(evs),
              earliest_warning_hours |->
                  SetMax({evs[i].hours_before_peak : i \in 1..Len(evs)}),
              max_rise_rate |-> MaxRiseRate(evs),
              rapid_rise_events |-> Len(rapid_events),
              sustained_rise_events |-> Len(sustained),
              major_events |-> Len(major_events)]

\* events as the detectors build them and analyze_precursors dates them: rapid rises
\* of 1 ft/day and 3 ft/day, sustained rises of 3 ft and 7 ft
GivenEvents ==
    {[PrecursorEvent("rapid_rise", 0, v, RapidSeverity(v)) EXCEPT !.hours_before_peak = h] :
        v \in {UnitsPerFoot, 3 * UnitsPerFoot}, h \in {6 * k : k \in 0..MaxWarning}}
    \cup
    {[PrecursorEvent("sustained_rise", 0, v, SustainedSeverity(v))
         EXCEPT !.hours_before_peak = h] :
        v \in {3 * UnitsPerFoot, 7 * UnitsPerFoot}, h \in {6 * k : k \in 0..MaxWarning}}

InitMetrics ==
    /\ pc = "ready"
    /\ error = "none"
    /\ stage = <<>>
    /\ rise_rate = EmptyGrid
    /\ stage_daily = EmptyGrid
    /\ rate_threshold = 0
    /\ min_duration = 0
    /\ rise_threshold = 0
    /\ window_days = 0
    /\ events \in UNION {[1..n -> GivenEvents] : n \in 0..MaxEvents}
    /\ CorrelationIdle
    /\ RegressionIdle
    /\ AuxIdle

CallComputePrecursorMetrics ==
    /\ pc = "ready"
    /\ metrics' = <<ComputePrecursorMetrics(events)>>
    /\ pc' = "returned"
    /\ UNCHANGED <<error, precursor_vars, correlation_vars, regression_vars,
                   selection_vars, predict_vars, rate_window, rapid_mask, peak_time,
                   lookback_days>>

NextMetrics == CallComputePrecursorMetrics

SpecMetrics == InitMetrics /\ [][NextMetrics]_vars

----------------------------------------------------------------------------
(* Properties of compute_precursor_metrics *)

\* the fields reported for a non-empty event list
SummaryFields ==
    {"total_events", "rapid_rise_events", "sustained_rise_events", "max_rise_rate",
     "major_events", "earliest_warning_hours"}

\* positions of the given events of one type
OfType(type) == {i \in 1..Len(events) : events[i].precursor_type = type}

\* C12: for an empty event list the call returns a summary that has every field
\* reported for a non-empty list, each equal to zero
C12_EmptySummaryHasEveryField ==
    (pc = "returned" /\ events = <<>>) =>
        /\ SummaryFields \subseteq DOMAIN metrics[1]
        /\ \A f \in SummaryFields \cap DOMAIN metrics[1] : metrics[1][f] = 0

\* for an empty list the call does return, and the fields it reports are zero
EmptySummaryFieldsAreZero ==
    (pc = "returned" /\ events = <<>>) =>
        \A f \in DOMAIN metrics[1] : metrics[1][f] = 0

\* C15: for a non-empty event list the summary holds the number of events, of
\* rapid_rise events, of sustained_rise events and of major events, the largest
\* value among rapid_rise events (0 without one) and the largest hours_before_peak
\* of all events
C15_SummaryOfNonEmptyList ==
    (pc = "returned" /\ events # <<>>) =>
        LET m == metrics[1]
        IN  /\ DOMAIN m = SummaryFields
            /\ m.total_events = Len(events)
            /\ m.rapid_rise_events = Cardinality(OfType("rapid_rise"))
            /\ m.sustained_rise_events = Cardinality(OfType("sustained_rise"))
            /\ m.major_events =
                   Cardinality({i \in 1..Len(events) : events[i].severity = "major"})
            /\ IF OfType("rapid_rise") = {} THEN m.max_rise_rate = 0
               ELSE /\ \E i \in OfType("rapid_rise") : m.max_rise_rate = events[i].value
                    /\ \A i \in OfType("rapid_rise") : m.max_rise_rate >= events[i].value
            /\ \E i \in 1..Len(events) : m.earliest_warning_hours = events[i].hours_before_peak
            /\ \A i \in 1..Len(events) : m.earliest_warning_hours >= events[i].hours_before_peak

\* a rapid rise and a larger sustained rise were summarised, the sustained one with
\* the earlier warning
C15_Witness ==
    /\ pc = "returned"
    /\ \E i \in OfType("rapid_rise"), j \in OfType("sustained_rise") :
          /\ events[j].value > events[i].value
          /\ events[j].hours_before_peak > events[i].hours_before_peak
          /\ metrics[1].max_rise_rate = events[i].value
          /\ metrics[1].earliest_warning_hours = events[j].hours_before_peak

----------------------------------------------------------------------------
(* RegressionResult.predict *)

\* predict is called on models of 1..MaxModelSegments segments
MaxModelSegments == 3
\* breakpoints are whole numbers in 0..MaxBreakAt
MaxBreakAt == 4
\* x holds 1..MaxInputLen values, each in -1..MaxBreakAt + 1
MaxInputLen == 2
\* slopes are whole numbers in 1..MaxSlope
MaxSlope == 2

SegmentMaskLeftClosed(m, i, v) ==
    IF i = 0 THEN v < m.breakpoints[i + 2]
    ELSE IF i = m.n_segments - 1 THEN v >= m.breakpoints[i + 1]
    ELSE v >= m.breakpoints[i + 1] /\ v < m.breakpoints[i + 2]

\* mask of segment i (counted from 0, as in the loop) at the input value v;
\* self.breakpoints[j] is m.breakpoints[j + 1]
SegmentMask(m, i, v) ==
    IF i = 0 THEN v <= m.breakpoints[i + 2]
    ELSE IF i = m.n_segments - 1 THEN v > m.breakpoints[i + 1]
    ELSE v > m.breakpoints[i + 1] /\ v <= m.breakpoints[i + 2]

\* self.slopes[i] * x + self.intercepts[i]
SegmentLine(m, i, v) == m.slopes[i + 1] * v + m.intercepts[i + 1]

\* for i in range(self.n_segments): y_pred[mask] = ...
RECURSIVE PredictLoop(_, _, _, _)
PredictLoop(m, xs, i, out) ==
    IF i >= m.n_segments THEN out
    ELSE PredictLoop(m, xs, i + 1,
                     [k \in 1..Len(xs) |->
                         IF SegmentMask(m, i, xs[k]) THEN SegmentLine(m, i, xs[k])
                         ELSE out[k]])

\* y_pred = np.zeros_like(x, dtype=float), then the loop
Predict(m, xs) == PredictLoop(m, xs, 0, [k \in 1..Len(xs) |-> 0])

\* strictly increasing sequences of n whole numbers in lo..hi
RECURSIVE Increasing(_, _, _)
Increasing(n, lo, hi) ==
    IF n = 0 THEN {<<>>}
    ELSE UNION {{<<b>> \o rest : rest \in Increasing(n - 1, b + 1, hi)} : b \in lo..hi}

\* models as fit_segmented_regression returns them when the solver places the
\* breakpoints: n + 1 increasing breakpoints, n slopes and n intercepts; segment
\* i's intercept is i + 1, which tells the segments' lines apart
Models ==
    UNION {{[breakpoints |-> b, slopes |-> s, intercepts |-> [i \in 1..n |-> i],
             n_segments |-> n] :
               b \in Increasing(n + 1, 0, MaxBreakAt), s \in [1..n -> 1..MaxSlope]} :
           n \in 1..MaxModelSegments}

InitPredict ==
    /\ pc = "ready"
    /\ error = "none"
    /\ PrecursorIdle
    /\ CorrelationIdle
    /\ RegressionIdle
    /\ SelectionIdle
    /\ SummaryIdle
    /\ model \in {<<m>> : m \in Models}
    /\ x_new \in UNION {[1..n -> (0 - 1)..(MaxBreakAt + 1)] : n \in 1..MaxInputLen}
    /\ y_pred = <<>>

CallPredict ==
    /\ pc = "ready"
    /\ y_pred' = <<Predict(model[1], x_new)>>
    /\ pc' = "returned"
    /\ UNCHANGED <<error, precursor_vars, correlation_vars, regression_vars,
                   selection_vars, model, x_new, summary_vars>>

NextPredict == CallPredict

SpecPredict == InitPredict /\ [][NextPredict]_vars

----------------------------------------------------------------------------
(* Properties of RegressionResult.predict *)

\* breakpoint b_j of the model, j counted from 0
Breakpoint(j) == model[1].breakpoints[j + 1]

\* v lies in the fitted domain [b_0, b_n]
InDomain(v) == Breakpoint(0) <= v /\ v <= Breakpoint(model[1].n_segments)

\* the segments that the half-open rule gives an in-domain v: segment 0 on
\* [b_0, b_1], segment j >= 1 on (b_j, b_j+1]
RuleSegments(v) ==
    {j \in 0..(model[1].n_segments - 1) :
        IF j = 0 THEN Breakpoint(0) <= v /\ v <= Breakpoint(1)
        ELSE Breakpoint(j) < v /\ v <= Breakpoint(j + 1)}

\* C16: the array returned is as long as x, and its k-th entry, for an x[k] in the
\* fitted domain, is the line of the one segment the half-open rule gives x[k]; an
\* x[k] on an interior breakpoint b_j takes segment j-1's line
C16_HalfOpenRuleInsideDomain ==
    pc = "returned" =>
        /\ Len(y_pred[1]) = Len(x_new)
        /\ \A k \in 1..Len(x_new) :
              InDomain(x_new[k]) =>
                  /\ Cardinality(RuleSegments(x_new[k])) = 1
                  /\ \A j \in RuleSegments(x_new[k]) :
                        y_pred[1][k] = SegmentLine(model[1], j, x_new[k])
                  /\ \A j \in 1..(model[1].n_segments - 1) :
                        x_new[k] = Breakpoint(j) =>
                            y_pred[1][k] = SegmentLine(model[1], j - 1, x_new[k])

\* x holds an interior breakpoint followed by a smaller in-domain value, and the
\* two segments on either side of the breakpoint give different values there
C16_Witness ==
    /\ pc = "returned"
    /\ Len(x_new) = 2
    /\ x_new[2] < x_new[1]
    /\ InDomain(x_new[2])
    /\ \E j \in 1..(model[1].n_segments - 1) :
          /\ x_new[1] = Breakpoint(j)
          /\ SegmentLine(model[1], j - 1, x_new[1]) # SegmentLine(model[1], j, x_new[1])

\* C18: an x[k] below the first breakpoint gets the first segment's line and an
\* x[k] above the last breakpoint gets the last segment's line, whatever n_segments
C18_LinesOutsideDomain ==
    pc = "returned" =>
        \A k \in 1..Len(x_new) :
            /\ x_new[k] < Breakpoint(0) =>
                   y_pred[1][k] = SegmentLine(model[1], 0, x_new[k])
            /\ x_new[k] > Breakpoint(model[1].n_segments) =>
                   y_pred[1][k] = SegmentLine(model[1], model[1].n_segments - 1, x_new[k])

\* with two or more segments the outer lines are extended on both sides
LinesOutsideDomainFromTwoSegments ==
    (pc = "returned" /\ model[1].n_segments >= 2) =>
        \A k \in 1..Len(x_new) :
            /\ x_new[k] < Breakpoint(0) =>
                   y_pred[1][k] = SegmentLine(model[1], 0, x_new[k])
            /\ x_new[k] > Breakpoint(model[1].n_segments) =>
                   y_pred[1][k] = SegmentLine(model[1], model[1].n_segments - 1, x_new[k])

\* with one segment a value above the last breakpoint keeps the initial zero
ZeroAboveDomainOfOneSegment ==
    (pc = "returned" /\ model[1].n_segments = 1) =>
        \A k \in 1..Len(x_new) :
            /\ x_new[k] <= Breakpoint(1) =>
                   y_pred[1][k] = SegmentLine(model[1], 0, x_new[k])
            /\ x_new[k] > Breakpoint(1) => y_pred[1][k] = 0

----------------------------------------------------------------------------
(* calculate_rise_rate, and the comparison detect_rapid_rise makes with it *)

\* calculate_rise_rate is called with window_hours in 1..MaxRateWindow
MaxRateWindow == 3
\* on hourly series of 1..MaxRateLen samples
MaxRateLen == 5
\* ramps rise by -MaxRamp..MaxRamp units an hour
MaxRamp == 2

\* hourly series without gaps: every sequence of levels, and the linear ramps
RateStages ==
    {GridToSeries([i \in 1..Len(d) |-> <<d[i]>>], 0, 1) :
        d \in UNION {[1..n -> Levels] : n \in 1..MaxRateLen}}
    \cup
    {GridToSeries([i \in 1..MaxRateLen |-> <<k * i>>], 0, 1) :
        k \in (0 - MaxRamp)..MaxRamp}

InitRate ==
    /\ pc = "ready"
    /\ error = "none"
    /\ stage \in RateStages
    /\ rate_threshold \in RapidThresholds
    /\ rate_window \in 1..MaxRateWindow
    /\ min_duration = 0
    /\ rise_threshold = 0
    /\ window_days = 0
    /\ rise_rate = EmptyGrid
    /\ stage_daily = EmptyGrid
    /\ events = <<>>
    /\ rapid_mask = <<>>
    /\ peak_time = 0
    /\ lookback_days = 0
    /\ metrics = <<>>
    /\ CorrelationIdle
    /\ RegressionIdle
    /\ SelectionIdle
    /\ PredictIdle

CallCalculateRiseRate ==
    /\ pc = "ready"
    /\ rise_rate' = CalculateRiseRate(stage, rate_window)
    /\ pc' = "rated"
    /\ UNCHANGED <<error, stage, rate_threshold, min_duration, rise_threshold,
                   window_days, stage_daily, events, correlation_vars, regression_vars,
                   selection_vars, predict_vars, summary_vars>>

\* rapid = rise_rate > threshold_ft_per_day
CompareWithThreshold ==
    /\ pc = "rated"
    /\ rapid_mask' = <<RapidMask(rise_rate.vals, rate_threshold)>>
    /\ pc' = "returned"
    /\ UNCHANGED <<error, precursor_vars, correlation_vars, regression_vars,
                   selection_vars, predict_vars, rate_window, peak_time, lookback_days,
                   metrics>>

NextRate == CallCalculateRiseRate \/ CompareWithThreshold

SpecRate == InitRate /\ [][NextRate]_vars

----------------------------------------------------------------------------
(* Properties of calculate_rise_rate *)

\* the stage rises by k units every hour
IsRamp(k) == \A i \in 1..(Len(stage) - 1) : stage[i + 1].v - stage[i].v = k

\* C17: on an hourly series the rate grid has a point per sample; the first
\* rate_window points are missing and point t after them holds
\* (v[t] - v[t - rate_window]) * 24 / rate_window, which on a ramp of k an hour is
\* 24 * k; a missing point is never above the threshold, of either sign
C17_RateAfterWarmUp ==
    pc \in {"rated", "returned"} =>
        /\ Len(rise_rate.vals) = Len(stage)
        /\ \A t \in 1..Len(stage) :
              IF t <= rate_window THEN rise_rate.vals[t] = NaN
              ELSE /\ rise_rate.vals[t] # NaN
                   /\ rise_rate.vals[t][1] * rate_window =
                          (stage[t].v - stage[t - rate_window].v) * HoursPerDay
        /\ \A k \in (0 - MaxRamp)..MaxRamp :
              IsRamp(k) =>
                  \A t \in (rate_window + 1)..Len(stage) :
                      rise_rate.vals[t] = <<HoursPerDay * k>>
        /\ pc = "returned" =>
              \A t \in 1..Len(stage) : t <= rate_window => ~rapid_mask[1][t]

\* a rising ramp compared with a negative threshold: the points after the warm-up
\* are above it
C17_Witness ==
    /\ pc = "returned"
    /\ rate_threshold < 0
    /\ rate_window >= 2
    /\ \E k \in 1..MaxRamp : IsRamp(k)
    /\ Len(stage) > rate_window + 1
    /\ \A t \in (rate_window + 1)..Len(stage) : rapid_mask[1][t]

----------------------------------------------------------------------------
(* Severity of the events of both detectors *)

\* detect_sustained_rise inputs for the severity bands: one sample a day for
\* SeverityDays days
SeverityDays == 3

\* daily levels of 0, 4, 6 and 7 ft: total rises of exactly 4 ft and 6 ft, and of
\* 1, 2, 3 and 7 ft, occur
SeverityLevels == {0, 4 * UnitsPerFoot, 6 * UnitsPerFoot, 7 * UnitsPerFoot}

SeverityStages ==
    {GridToSeries([i \in 1..SeverityDays |-> <<d[i]>>], HoursPerDay \div 2, HoursPerDay) :
        d \in [1..SeverityDays -> SeverityLevels]}

\* detect_rapid_rise inputs for the severity bands: a warm-up window at 0 and
\* SeverityTail hourly samples
SeverityTail == 3

\* hourly levels of 0, 1, 2 and 3 units: with UnitsPerFoot = 4 and WindowHours = 6
\* the rates are exactly 1 ft/day, 2 ft/day and 3 ft/day
SeverityHourlyLevels == 0..3

SeverityRapidStages ==
    {GridToSeries([i \in 1..WindowHours |-> <<0>>] \o [i \in 1..SeverityTail |-> <<d[i]>>],
                  0, 1) :
        d \in [1..SeverityTail -> SeverityHourlyLevels]}

InitSeverityRapid ==
    /\ pc = "ready"
    /\ error = "none"
    /\ AuxIdle
    /\ stage \in SeverityRapidStages
    /\ rate_threshold \in RapidThresholds
    /\ min_duration \in 1..MaxMinDuration
    /\ rise_threshold = 0
    /\ window_days = 0
    /\ rise_rate = EmptyGrid
    /\ stage_daily = EmptyGrid
    /\ events = <<>>
    /\ CorrelationIdle
    /\ RegressionIdle

InitSeveritySustained ==
    /\ pc = "ready"
    /\ error = "none"
    /\ AuxIdle
    /\ stage \in SeverityStages
    /\ rise_threshold \in SustainedThresholds
    /\ window_days \in 1..SeverityDays
    /\ rate_threshold = 0
    /\ min_duration = 0
    /\ rise_rate = EmptyGrid
    /\ stage_daily = EmptyGrid
    /\ events = <<>>
    /\ CorrelationIdle
    /\ RegressionIdle

\* a call of either detector
InitSeverity == InitSeverityRapid \/ InitSeveritySustained

\* window_days is bound only in a call of detect_sustained_rise
NextSeverity ==
    \/ (window_days = 0 /\ CallDetectRapidRise)
    \/ (window_days > 0 /\ CallDetectSustainedRise)

SpecSeverity == InitSeverity /\ [][NextSeverity]_vars

\* the band of a magnitude between the two limits of its detector; a magnitude on
\* a limit is in the band below it
Band(value, moderate_above, major_above) ==
    CASE value > major_above -> "major"
      [] value > moderate_above /\ value <= major_above -> "moderate"
      [] value <= moderate_above -> "minor"

\* C14: the severity of every event is the band of its value: above 2 ft/day
\* major, above 1 ft/day moderate, else minor for a rapid rise; above 6 ft major,
\* above 4 ft moderate, else minor for a sustained rise
C14_SeverityIsTheBandOfTheValue ==
    pc = "returned" =>
        \A k \in 1..Len(events) :
            events[k].severity =
                IF events[k].precursor_type = "rapid_rise"
                THEN Band(events[k].value, 1 * UnitsPerFoot, 2 * UnitsPerFoot)
                ELSE Band(events[k].value, 4 * UnitsPerFoot, 6 * UnitsPerFoot)

\* a sustained rise of exactly 6 ft was emitted and classified moderate
C14_Witness ==
    /\ pc = "returned"
    /\ \E k \in 1..Len(events) :
          /\ events[k].precursor_type = "sustained_rise"
          /\ events[k].value = 6 * UnitsPerFoot
          /\ events[k].severity = "moderate"

\* a sustained rise of exactly 4 ft is emitted as well, as minor
SustainedRiseOnTheLowerLimit ==
    /\ pc = "returned"
    /\ \E k \in 1..Len(events) :
          /\ events[k].precursor_type = "sustained_rise"
          /\ events[k].value = 4 * UnitsPerFoot
          /\ events[k].severity = "minor"

\* and so is a rapid rise of exactly 2 ft/day, as moderate
RapidRiseOnTheUpperLimit ==
    /\ pc = "returned"
    /\ \E k \in 1..Len(events) :
          /\ events[k].precursor_type = "rapid_rise"
          /\ events[k].value = 2 * UnitsPerFoot
          /\ events[k].severity = "moderate"

\* and one of exactly 1 ft/day, as minor
RapidRiseOnTheLowerLimit ==
    /\ pc = "returned"
    /\ \E k \in 1..Len(events) :
          /\ events[k].precursor_type = "rapid_rise"
          /\ events[k].value = 1 * UnitsPerFoot
          /\ events[k].severity = "minor"

----------------------------------------------------------------------------
(* analyze_precursors *)

\* analyze_precursors inputs: one sample at each of MaxAnalysisDays midnights
MaxAnalysisDays == 8
\* peak_time is up to MaxPeakLead half days before the last sample, or half a day after
MaxPeakLead == 2

\* detect_rapid_rise(stage, threshold_ft_per_day, min_duration_hours=3)
DefaultMinDuration == 3
\* detect_sustained_rise(stage, threshold_ft, window_days=7)
DefaultWindowDays == 7
\* analyze_precursors(stage, peak_time, lookback_days=14, ..)
DefaultLookbackDays == 14

\* stage[window_start:peak_time]: a label slice, both ends included
SliceWindow(series, window_start, window_end) ==
    SelectSeq(series, LAMBDA s : window_start <= s.t /\ s.t <= window_end)

SetHoursOfRapidOnly(e, peak) ==
    IF e.precursor_type = "rapid_rise"
    THEN [e EXCEPT !.hours_before_peak = peak - e.detected_at]
    ELSE e

\* event.hours_before_peak = (peak_time - event.detected_at).total_seconds() / 3600
SetHoursBeforePeak(e, peak) ==
    [e EXCEPT !.hours_before_peak = peak - e.detected_at]

\* list.sort(key=lambda e: e.detected_at): stable, so insertion after the last
\* event that is not later
RECURSIVE InsertByDetectedAt(_, _)
InsertByDetectedAt(sorted, e) ==
    IF sorted = <<>> THEN <<e>>
    ELSE IF Head(sorted).detected_at <= e.detected_at
    THEN <<Head(sorted)>> \o InsertByDetectedAt(Tail(sorted), e)
    ELSE <<e>> \o sorted

RECURSIVE SortByDetectedAt(_)
SortByDetectedAt(evs) ==
    IF evs = <<>> THEN <<>>
    ELSE InsertByDetectedAt(SortByDetectedAt(SubSeq(evs, 1, Len(evs) - 1)),
                            evs[Len(evs)])

\* the merge, the update of hours_before_peak and the sort
CombineEvents(rapid_events, sustained_events, peak) ==
    LET all_events == rapid_events \o sustained_events
    IN  SortByDetectedAt([i \in 1..Len(all_events) |->
                             SetHoursBeforePeak(all_events[i], peak)])

\* a level every midnight from hour 0 on: each day the river holds or rises 6 ft,
\* so the hourly interpolation is a whole number of units
RECURSIVE Cumulated(_)
Cumulated(steps) ==
    IF steps = <<>> THEN <<>>
    ELSE LET before == Cumulated(SubSeq(steps, 1, Len(steps) - 1))
         IN  Append(before,
                    <<(IF before = <<>> THEN 0 ELSE before[Len(before)][1])
                      + steps[Len(steps)]>>)

AnalysisStages ==
    {GridToSeries(Cumulated(<<0>> \o steps), 0, HoursPerDay) :
        steps \in [1..(MaxAnalysisDays - 1) -> {0, HoursPerDay}]}

LastMidnight == (MaxAnalysisDays - 1) * HoursPerDay

InitAnalyze ==
    /\ pc = "ready"
    /\ error = "none"
    /\ stage \in AnalysisStages
    /\ peak_time \in {LastMidnight + (HoursPerDay \div 2) * k : k \in (0 - MaxPeakLead)..1}
    /\ lookback_days \in {DefaultWindowDays, DefaultLookbackDays}
    /\ rate_threshold = UnitsPerFoot \div 2
    /\ rise_threshold = 2 * UnitsPerFoot
    /\ min_duration = DefaultMinDuration
    /\ window_days = DefaultWindowDays
    /\ rise_rate = EmptyGrid
    /\ stage_daily = EmptyGrid
    /\ events = <<>>
    /\ rate_window = 0
    /\ rapid_mask = <<>>
    /\ metrics = <<>>
    /\ CorrelationIdle
    /\ RegressionIdle
    /\ SelectionIdle
    /\ PredictIdle

CallAnalyzePrecursors ==
    /\ pc = "ready"
    /\ LET window_start == peak_time - lookback_days * HoursPerDay
           stage_window == SliceWindow(stage, window_start, peak_time)
       IN  /\ rise_rate' = CalculateRiseRate(stage_window, WindowHours)
           /\ stage_daily' = ResampleMean(stage_window, HoursPerDay)
    /\ events' = CombineEvents(GroupRapidRuns(rise_rate', rate_threshold, min_duration),
                               GroupSustainedRuns(stage_daily', rise_threshold, window_days),
                               peak_time)
    /\ pc' = "returned"
    /\ UNCHANGED <<error, stage, rate_threshold, min_duration, rise_threshold,
                   window_days, correlation_vars, regression_vars, selection_vars,
                   predict_vars, summary_vars>>

NextAnalyze == CallAnalyzePrecursors

SpecAnalyze == InitAnalyze /\ [][NextAnalyze]_vars

----------------------------------------------------------------------------
(* Properties of analyze_precursors *)

\* C13: every event returned, rapid or sustained, has hours_before_peak equal to
\* peak_time - detected_at in hours, so it is 0 only for an event detected at
\* peak_time
C13_HoursBeforePeakOfEveryEvent ==
    pc = "returned" =>
        \A k \in 1..Len(events) :
            /\ events[k].hours_before_peak = peak_time - events[k].detected_at
            /\ events[k].hours_before_peak = 0 => events[k].detected_at = peak_time

\* a rapid rise and a sustained rise were returned, both detected before peak_time
C13_Witness ==
    /\ pc = "returned"
    /\ \E j, k \in 1..Len(events) :
          /\ events[j].precursor_type = "rapid_rise"
          /\ events[k].precursor_type = "sustained_rise"
          /\ events[j].detected_at < peak_time
          /\ events[k].detected_at < peak_time
          /\ events[j].hours_before_peak # events[k].hours_before_peak

\* a sustained rise detected at peak_time itself is returned with 0 hours
DetectedAtPeakTime ==
    /\ pc = "returned"
    /\ \E k \in 1..Len(events) :
          events[k].detected_at = peak_time /\ events[k].hours_before_peak = 0

====
